---- MODULE Spec2Model ----
(***************************************************************************)
(* UniThrift API server (server/index.js): the /api/seed, /api/estimate    *)
(* and /api/cart/checkout handlers over a product catalog and an order     *)
(* store.  Every await of a handler is a point where other requests run,   *)
(* so each handler is cut into one action per await.                       *)
(*                                                                         *)
(* JavaScript values are records [t, n, s]: t is the type tag, n the       *)
(* numeric payload and s the characters of a string.  A finite number x    *)
(* is held as the integer x * Scale, so that fractions of 1/Scale exist    *)
(* and Math.round is not the identity.  Magnitudes stay far below 2^53,    *)
(* so the arithmetic of the handlers is exact on these values.             *)
(***************************************************************************)
EXTENDS Integers, Sequences, FiniteSets

\* ----------------------------------------------------------------- bounds
Scale == 2          \* resolution of a number: multiples of 1/Scale
MaxItems == 2       \* longest cart list of the pricing specification
MaxCheckouts == 2   \* checkout requests of the server specification
MaxSeeds == 2       \* seed requests
MaxEstimates == 2   \* estimate requests

VARIABLES products, orders, seed, checkout, estimate, orsKey

vars == <<products, orders, seed, checkout, estimate, orsKey>>

\* ------------------------------------------------------ JavaScript values
Undef == [t |-> "undefined", n |-> 0, s |-> <<>>]
Null == [t |-> "null", n |-> 0, s |-> <<>>]
NaN == [t |-> "nan", n |-> 0, s |-> <<>>]
Infinity == [t |-> "inf", n |-> 1, s |-> <<>>]
Bool(b) == [t |-> "bool", n |-> IF b THEN 1 ELSE 0, s |-> <<>>]
\* the number x / Scale
Raw(x) == [t |-> "num", n |-> x, s |-> <<>>]
\* the integer k
Num(k) == Raw(k * Scale)
Str(chars) == [t |-> "str", n |-> 0, s |-> chars]

Digits == <<"0", "1", "2", "3", "4", "5", "6", "7", "8", "9">>

DigitSet == {Digits[i] : i \in 1..Len(Digits)}

DigitVal(c) == (CHOOSE i \in 1..Len(Digits) : Digits[i] = c) - 1

WhiteSpace == {" "}

RECURSIVE NatToStr(_)
NatToStr(k) ==
  IF k < Len(Digits) THEN <<Digits[k + 1]>>
  ELSE NatToStr(k \div Len(Digits)) \o <<Digits[(k % Len(Digits)) + 1]>>

RECURSIVE StrToNat(_)
StrToNat(chars) ==
  IF chars = <<>> THEN 0
  ELSE StrToNat(SubSeq(chars, 1, Len(chars) - 1)) * Len(Digits)
       + DigitVal(chars[Len(chars)])

IsDigits(chars) == chars # <<>> /\ \A i \in 1..Len(chars) : chars[i] \in DigitSet

RECURSIVE TrimStart(_)
TrimStart(chars) ==
  IF chars # <<>> /\ Head(chars) \in WhiteSpace THEN TrimStart(Tail(chars))
  ELSE chars

RECURSIVE TrimEnd(_)
TrimEnd(chars) ==
  IF chars # <<>> /\ chars[Len(chars)] \in WhiteSpace
  THEN TrimEnd(SubSeq(chars, 1, Len(chars) - 1))
  ELSE chars

\* String.prototype.trim
Trim(chars) == TrimEnd(TrimStart(chars))

\* a || b
Truthy(v) ==
  CASE v.t \in {"undefined", "null", "nan"} -> FALSE
    [] v.t \in {"num", "bool"} -> v.n # 0
    [] v.t = "str" -> v.s # <<>>
    [] OTHER -> TRUE

Or(a, b) == IF Truthy(a) THEN a ELSE b

\* a ?? b
Nullish(a, b) == IF a.t \in {"undefined", "null"} THEN b ELSE a

\* Number(string): decimal integer literals with an optional sign, the
\* empty string, "Infinity"; every other text over the model's alphabet is NaN
StringToNumber(chars) ==
  LET t == Trim(chars) IN
  CASE t = <<>> -> Num(0)
    [] IsDigits(t) -> Num(StrToNat(t))
    [] Len(t) > 1 /\ t[1] = "-" /\ IsDigits(Tail(t)) -> Num(0 - StrToNat(Tail(t)))
    [] Len(t) > 1 /\ t[1] = "+" /\ IsDigits(Tail(t)) -> Num(StrToNat(Tail(t)))
    [] t = <<"I", "n", "f", "i", "n", "i", "t", "y">> -> Infinity
    [] OTHER -> NaN

\* Number(v)
ToNumber(v) ==
  CASE v.t = "undefined" -> NaN
    [] v.t = "null" -> Num(0)
    [] v.t = "bool" -> Num(v.n)
    [] v.t = "str" -> StringToNumber(v.s)
    [] OTHER -> v

\* String(v); of the finite numbers only the integers are formatted here
ToString(v) ==
  CASE v.t = "str" -> v.s
    [] v.t = "num" ->
         (IF v.n < 0 THEN <<"-">> ELSE <<>>)
         \o NatToStr((IF v.n < 0 THEN 0 - v.n ELSE v.n) \div Scale)
    [] v.t = "bool" ->
         IF v.n = 1 THEN <<"t", "r", "u", "e">> ELSE <<"f", "a", "l", "s", "e">>
    [] v.t = "inf" -> <<"I", "n", "f", "i", "n", "i", "t", "y">>
    [] v.t = "nan" -> <<"N", "a", "N">>
    [] v.t = "null" -> <<"n", "u", "l", "l">>
    [] OTHER -> <<"u", "n", "d", "e", "f", "i", "n", "e", "d">>

\* Number.isFinite(v)
IsFinite(v) == v.t = "num"

\* Math.round of q / Scale^2: floor(x + 1/2)
Round(q) == (2 * q + Scale * Scale) \div (2 * Scale * Scale)

Max(a, b) == IF a > b THEN a ELSE b

\* ------------------------------------------------------ product catalog
\* prices of the six demo products
SeedPrices == <<120, 180, 130, 150, 200, 180>>

\* the identifier the store gives the k-th product it inserts
ProductId(k) == <<"p">> \o NatToStr(k)

\* prisma.product.createMany({ data: [...] }) on a catalog ps
CreateManyProducts(ps) ==
  ps \o [j \in 1..Len(SeedPrices) |->
           [id |-> ProductId(Len(ps) + j), demo |-> j, price |-> SeedPrices[j]]]

\* prisma.product.findMany({ where: { id: { in: ids } } }) on a catalog ps
FindManyProducts(ps, ids) ==
  {ps[k] : k \in {x \in 1..Len(ps) : ps[x].id \in ids}}

\* priceMap[id], priceMap = Object.fromEntries(found.map(p => [p.id, p.price]))
PriceMap(found, id) ==
  IF \E p \in found : p.id = id
  THEN Num((CHOOSE p \in found : p.id = id).price)
  ELSE Undef

\* --------------------------------------------------------------- checkout
NotArray == [isArray |-> FALSE, elems |-> <<>>]

Array(list) == [isArray |-> TRUE, elems |-> list]

\* request bodies: a bare list, or an object with its `items` and `cart`
BareBody(list) == [isArray |-> TRUE, elems |-> list, items |-> NotArray, cart |-> NotArray]

ObjectBody(items, cart) == [isArray |-> FALSE, elems |-> <<>>, items |-> items, cart |-> cart]

\* a cart item; a field the item lacks is Undef
Item(productId, id, name, qty, quantity, price) ==
  [t |-> "object", productId |-> productId, id |-> id, name |-> name,
   qty |-> qty, quantity |-> quantity, price |-> price]

NullItem == [Item(Undef, Undef, Undef, Undef, Undef, Undef) EXCEPT !.t = "null"]

\* SelectItems without its third branch: a list under `cart` is not looked at
SelectItemsNoCart(body) ==
  IF body.isArray THEN body.elems
  ELSE IF body.items.isArray THEN body.items.elems
  ELSE <<>>

\* the list the handler takes from the body
SelectItems(body) ==
  IF body.isArray THEN body.elems
  ELSE IF body.items.isArray THEN body.items.elems
  ELSE IF body.cart.isArray THEN body.cart.elems
  ELSE <<>>

\* reading a property of null throws a TypeError inside items.map
MapThrows(items) == \E k \in 1..Len(items) : items[k].t = "null"

NormItem(i) ==
  [productId |-> Trim(ToString(Or(Or(Or(i.productId, i.id), i.name), Str(<<>>)))),
   qty |-> ToNumber(Nullish(Nullish(i.qty, i.quantity), Num(1))),
   priceSnap |-> ToNumber(Nullish(i.price, Num(0)))]

Normalize(items) == [k \in 1..Len(items) |-> NormItem(items[k])]

\* NoItems with the validation left out
NoItemsNever(norm) == FALSE

\* norm.length === 0
NoItems(norm) == Len(norm) = 0

\* norm.filter(i => i.productId).map(i => i.productId), as the set `in` reads
Ids(norm) == {norm[k].productId : k \in {x \in 1..Len(norm) : norm[x].productId # <<>>}}

\* the unit price of the total's reduce, times Scale
UnitInTotal(i, found) ==
  LET dbPrice == IF IsFinite(PriceMap(found, i.productId))
                 THEN PriceMap(found, i.productId) ELSE Null
  IN Nullish(dbPrice, IF IsFinite(i.priceSnap) THEN i.priceSnap ELSE Num(0)).n

\* the quantity of the total's reduce, times Scale
QtyInTotal(i) == IF IsFinite(i.qty) /\ i.qty.n > 0 THEN i.qty.n ELSE Num(1).n

\* norm.reduce((sum, i) => sum + unit * qty, 0), times Scale^2
RECURSIVE Reduce(_, _)
Reduce(norm, found) ==
  IF norm = <<>> THEN 0
  ELSE Reduce(SubSeq(norm, 1, Len(norm) - 1), found)
       + UnitInTotal(norm[Len(norm)], found) * QtyInTotal(norm[Len(norm)])

\* Math.max(0, Math.round(total))
OrderTotal(norm, found) == Max(0, Round(Reduce(norm, found)))

\* QtyInItem without the test for a positive quantity
QtyInItemAnySign(i) == IF IsFinite(i.qty) THEN i.qty.n ELSE Num(1).n

\* the quantity stored with an item, times Scale
QtyInItem(i) == IF IsFinite(i.qty) /\ i.qty.n > 0 THEN i.qty.n ELSE Num(1).n

\* PriceInItem preferring the client's price to the catalog's
PriceInItemSnapshotFirst(i, found) ==
  IF IsFinite(i.priceSnap) THEN i.priceSnap.n
  ELSE IF IsFinite(PriceMap(found, i.productId)) THEN PriceMap(found, i.productId).n
  ELSE Num(0).n

\* PriceInItem without the fallback to the client's price
PriceInItemCatalogOnly(i, found) ==
  IF IsFinite(PriceMap(found, i.productId)) THEN PriceMap(found, i.productId).n
  ELSE Num(0).n

\* the unit price stored with an item, times Scale
PriceInItem(i, found) ==
  IF IsFinite(PriceMap(found, i.productId)) THEN PriceMap(found, i.productId).n
  ELSE IF IsFinite(i.priceSnap) THEN i.priceSnap.n ELSE Num(0).n

Unknown == <<"U", "N", "K", "N", "O", "W", "N">>

OrderItems(norm, found) ==
  [k \in 1..Len(norm) |->
     [productId |-> IF norm[k].productId # <<>> THEN norm[k].productId ELSE Unknown,
      qty |-> QtyInItem(norm[k]),
      price |-> PriceInItem(norm[k], found)]]

\* CreateOrder writing over the last stored order instead of adding one
CreateOrderReplacing(os, r, norm, found) ==
  Append(IF os = <<>> THEN os ELSE SubSeq(os, 1, Len(os) - 1),
         [id |-> Max(1, Len(os)), req |-> r,
          total |-> OrderTotal(norm, found),
          items |-> OrderItems(norm, found)])

\* prisma.order.create: the order and its items become visible together
CreateOrder(os, r, norm, found) ==
  Append(os, [id |-> Len(os) + 1, req |-> r,
              total |-> OrderTotal(norm, found),
              items |-> OrderItems(norm, found)])

\* ---------------------------------------------------------- request inputs
P1 == Str(<<"p", "1">>)
P2Padded == Str(<<" ", "p", "2", " ">>)
X == Str(<<"x">>)
ZZ == Str(<<"z", "z">>)
Blank == Str(<<" ", " ">>)
Abc == Str(<<"a", "b", "c">>)
\* the fraction 1/2 (the nearest multiple of 1/Scale below it)
Half == Raw(Scale \div 2)

\* <<productId, id, name>> of an item
IdCases ==
  { <<P1, Undef, Undef>>, <<Undef, P2Padded, Undef>>, <<Undef, Undef, X>>,
    <<Undef, Undef, Undef>>, <<Str(<<>>), P1, X>>, <<Blank, ZZ, X>>,
    <<Num(0), Null, ZZ>>, <<Num(7), Undef, Undef>> }

\* <<qty, quantity>> of an item
QtyCases ==
  { <<Undef, Undef>>, <<Num(2), Undef>>, <<Undef, Num(3)>>, <<Num(0), Num(3)>>,
    <<Num(-1), Undef>>, <<Abc, Num(2)>>, <<Infinity, Undef>>, <<Null, Num(2)>>,
    <<Raw(Scale + 1), Undef>>, <<Str(<<" ", "2">>), Undef>>, <<Bool(TRUE), Undef>> }

\* price of an item
PriceCases ==
  { Undef, Null, Num(50), Num(999), Num(-5), Half, Raw(2 * Scale + 1), Abc,
    Infinity, Str(<<"7">>) }

\* every identifier and price with two quantities, and every quantity with
\* two identifiers and two prices
ItemInputs ==
  { Item(c[1], c[2], c[3], q[1], q[2], p) :
      c \in IdCases, q \in {<<Undef, Undef>>, <<Num(2), Undef>>}, p \in PriceCases }
    \cup
  { Item(c[1], c[2], c[3], q[1], q[2], p) :
      c \in {<<P1, Undef, Undef>>, <<Undef, Undef, X>>}, q \in QtyCases,
      p \in {Num(50), Half} }

\* the items a longer cart goes on with
MoreItems ==
  { Item(Undef, P1, Undef, Num(2), Undef, Num(10)),
    Item(Undef, Undef, X, Undef, Undef, Raw(2 * Scale + 1)),
    Item(Undef, Undef, X, Undef, Num(1), Num(-5)) }

RECURSIVE Carts(_)
\* the carts of n items: an item of ItemInputs, then items of MoreItems
Carts(n) ==
  IF n = 0 THEN {<<>>}
  ELSE IF n = 1 THEN {<<i>> : i \in ItemInputs}
  ELSE {Append(c, i) : c \in Carts(n - 1), i \in MoreItems}

CartLists == UNION {Carts(n) : n \in 0..MaxItems}

\* an object body around a cart: under `items`, under `cart`, and under
\* `items` beside an empty `cart`
Wrappers(list) ==
  { ObjectBody(Array(list), NotArray), ObjectBody(NotArray, Array(list)),
    ObjectBody(Array(list), Array(<<>>)) }

PricingBodies ==
  {BareBody(list) : list \in CartLists}
    \cup UNION {Wrappers(list) : list \in CartLists}
    \cup {ObjectBody(NotArray, NotArray), BareBody(<<NullItem>>)}

\* the bodies of the server specification
ServerBodies ==
  { ObjectBody(NotArray, NotArray),
    ObjectBody(Array(<<Item(P1, Undef, Undef, Undef, Num(3), Undef)>>), NotArray),
    ObjectBody(NotArray, Array(<<Item(Undef, Undef, X, Num(0), Undef, Num(10)),
                                 Item(Undef, P2Padded, Undef, Num(2), Undef, Num(50))>>)),
    BareBody(<<NullItem>>) }

\* ------------------------------------------------------------------ state
IdleCheckout ==
  [pc |-> "idle", body |-> ObjectBody(NotArray, NotArray), norm |-> <<>>,
   found |-> {}, status |-> 0, orderId |-> 0, reads |-> 0, writes |-> 0,
   responses |-> 0]

IdleSeed == [pc |-> "idle", count |-> 0, responses |-> 0]

IdleEstimate ==
  [pc |-> "idle", from |-> "", to |-> "", settled |-> "", status |-> 0,
   meters |-> 0, minutes |-> 0, fee |-> 0, responses |-> 0]

Init ==
  /\ products = <<>>
  /\ orders = <<>>
  /\ seed = [s \in 1..MaxSeeds |-> IdleSeed]
  /\ checkout = [r \in 1..MaxCheckouts |-> IdleCheckout]
  /\ estimate = [e \in 1..MaxEstimates |-> IdleEstimate]
  /\ orsKey = FALSE

\* request r arrives: requests are numbered in the order of their arrival
Arrives(reqs, r) ==
  /\ reqs[r].pc = "idle"
  /\ \A q \in 1..(r - 1) : reqs[q].pc # "idle"

\* res.status(code).json(...)
Respond(c, code) ==
  [c EXCEPT !.pc = "done", !.status = code, !.responses = c.responses + 1]

\* ------------------------------------------------- POST /api/cart/checkout
\* the handler up to its first await
CheckoutReceive(r, body) ==
  /\ Arrives(checkout, r)
  /\ LET c == [checkout[r] EXCEPT !.body = body]
         items == SelectItems(body)
     IN checkout' =
          [checkout EXCEPT ![r] =
             IF MapThrows(items) THEN Respond(c, 500)
             ELSE IF NoItems(Normalize(items)) THEN Respond(c, 422)
             ELSE [c EXCEPT !.pc = "findMany", !.norm = Normalize(items)]]
  /\ UNCHANGED <<products, orders, seed, estimate, orsKey>>

\* the catalog read resolves; the handler prices the cart and issues the write
CheckoutFindMany(r) ==
  /\ checkout[r].pc = "findMany"
  /\ checkout' =
       [checkout EXCEPT ![r] =
          [@ EXCEPT !.pc = "create", !.reads = @ + 1,
                    !.found = FindManyProducts(products, Ids(checkout[r].norm))]]
  /\ UNCHANGED <<products, orders, seed, estimate, orsKey>>

\* the catalog read rejects: the catch block answers
CheckoutFindManyFails(r) ==
  /\ checkout[r].pc = "findMany"
  /\ checkout' = [checkout EXCEPT ![r] = Respond([@ EXCEPT !.reads = @ + 1], 500)]
  /\ UNCHANGED <<products, orders, seed, estimate, orsKey>>

\* the store commits the order with its items
CheckoutCreate(r) ==
  /\ checkout[r].pc = "create"
  /\ orders' = CreateOrder(orders, r, checkout[r].norm, checkout[r].found)
  /\ checkout' =
       [checkout EXCEPT ![r] =
          [@ EXCEPT !.pc = "created", !.writes = @ + 1, !.orderId = Len(orders) + 1]]
  /\ UNCHANGED <<products, seed, estimate, orsKey>>

\* CheckoutCreateFails with a write that rejects after the order row is stored
CheckoutCreateFailsHalfway(r) ==
  /\ checkout[r].pc = "create"
  /\ orders' = Append(orders, [id |-> Len(orders) + 1, req |-> r,
                               total |-> OrderTotal(checkout[r].norm, checkout[r].found),
                               items |-> <<>>])
  /\ checkout' = [checkout EXCEPT ![r] = Respond([@ EXCEPT !.writes = @ + 1], 500)]
  /\ UNCHANGED <<products, seed, estimate, orsKey>>

\* the write rejects: nothing is stored and the catch block answers
CheckoutCreateFails(r) ==
  /\ checkout[r].pc = "create"
  /\ checkout' = [checkout EXCEPT ![r] = Respond([@ EXCEPT !.writes = @ + 1], 500)]
  /\ UNCHANGED <<products, orders, seed, estimate, orsKey>>

\* the write resolved: res.json({ orderId, total, ... })
CheckoutRespond(r) ==
  /\ checkout[r].pc = "created"
  /\ checkout' = [checkout EXCEPT ![r] = Respond(@, 200)]
  /\ UNCHANGED <<products, orders, seed, estimate, orsKey>>

\* ---------------------------------------------------------- GET /api/seed
\* prisma.product.count() resolves
SeedCount(s) ==
  /\ Arrives(seed, s)
  /\ seed' =
       [seed EXCEPT ![s] =
          IF Len(products) > 0
          THEN [@ EXCEPT !.pc = "done", !.count = Len(products), !.responses = @ + 1]
          ELSE [@ EXCEPT !.pc = "createMany", !.count = Len(products)]]
  /\ UNCHANGED <<products, orders, checkout, estimate, orsKey>>

\* prisma.product.createMany resolves
SeedCreateMany(s) ==
  /\ seed[s].pc = "createMany"
  /\ products' = CreateManyProducts(products)
  /\ seed' = [seed EXCEPT ![s] = [@ EXCEPT !.pc = "done", !.responses = @ + 1]]
  /\ UNCHANGED <<orders, checkout, estimate, orsKey>>

\* count or createMany rejects: the handler has no catch and never answers
SeedRejects(s) ==
  /\ seed[s].pc = "createMany"
     \/ Arrives(seed, s)
  /\ seed' = [seed EXCEPT ![s] = [@ EXCEPT !.pc = "rejected"]]
  /\ UNCHANGED <<products, orders, checkout, estimate, orsKey>>

Next ==
  \/ \E s \in 1..MaxSeeds : SeedCount(s)
  \/ \E s \in 1..MaxSeeds : SeedCreateMany(s)
  \/ \E s \in 1..MaxSeeds : SeedRejects(s)
  \/ \E r \in 1..MaxCheckouts :
       Arrives(checkout, r) /\ \E body \in ServerBodies : CheckoutReceive(r, body)
  \/ \E r \in 1..MaxCheckouts : CheckoutFindMany(r)
  \/ \E r \in 1..MaxCheckouts : CheckoutFindManyFails(r)
  \/ \E r \in 1..MaxCheckouts : CheckoutCreate(r)
  \/ \E r \in 1..MaxCheckouts : CheckoutCreateFails(r)
  \/ \E r \in 1..MaxCheckouts : CheckoutRespond(r)

Spec == Init /\ [][Next]_vars

\* --------------------------------------------- one checkout, any cart of
\* CartLists, against a catalog a previous run has or has not seeded
PricingInit ==
  /\ products \in {<<>>, CreateManyProducts(<<>>)}
  /\ orders = <<>>
  /\ seed = [s \in 1..MaxSeeds |-> IdleSeed]
  /\ checkout = [r \in 1..MaxCheckouts |-> IdleCheckout]
  /\ estimate = [e \in 1..MaxEstimates |-> IdleEstimate]
  /\ orsKey = FALSE

PricingNext ==
  \/ Arrives(checkout, 1) /\ \E body \in PricingBodies : CheckoutReceive(1, body)
  \/ CheckoutFindMany(1)
  \/ CheckoutFindManyFails(1)
  \/ CheckoutCreate(1)
  \/ CheckoutCreateFails(1)
  \/ CheckoutRespond(1)

PricingSpec == PricingInit /\ [][PricingNext]_vars

\* ------------------------------------------------------ GET /api/estimate
\* the keys of COORDS
COORDS ==
  { "SEC-A Lobby", "Gate 2.5", "Regis", "Katipunan LRT", "AS Steps",
    "Shopping Center", "Sunken Garden", "Main Gate", "Quadricentennial Park",
    "Beato Library" }

fallbackEstimates == [meters |-> 500, minutes |-> 10, fee |-> 20]

\* Math.ceil(a / b), b > 0
Ceil(a, b) == 0 - ((0 - a) \div b)

\* the `from` and `to` of a query; "" is a parameter the query lacks
PointInputs == {"Gate 2.5", "Nowhere", ""}

\* summary.distance and summary.duration of the routing answer; Undef when
\* the answer has no such field
DistanceInputs == {Undef, Num(250), Num(1234)}
DurationInputs == {Undef, Num(45)}

\* the handler up to its first await
EstimateReceive(e, from, to) ==
  /\ Arrives(estimate, e)
  /\ LET c == [estimate[e] EXCEPT !.from = from, !.to = to] IN
     estimate' =
       [estimate EXCEPT ![e] =
          IF from \notin COORDS \/ to \notin COORDS THEN Respond(c, 400)
          ELSE IF orsKey THEN [c EXCEPT !.pc = "fetch"]
          ELSE [Respond(c, 200) EXCEPT !.meters = fallbackEstimates.meters,
                                       !.minutes = fallbackEstimates.minutes,
                                       !.fee = fallbackEstimates.fee]]
  /\ UNCHANGED <<products, orders, seed, checkout, orsKey>>

\* the routing service settles the pending fetch: a response that is ok or
\* not, or a rejection (network error).  It may also never do so.
OrsSettlesFetch(e, outcome) ==
  /\ estimate[e].pc = "fetch"
  /\ estimate[e].settled = ""
  /\ estimate' = [estimate EXCEPT ![e] = [@ EXCEPT !.settled = outcome]]
  /\ UNCHANGED <<products, orders, seed, checkout, orsKey>>

\* res.json(fallbackEstimates)
Fallback(c) ==
  [Respond(c, 200) EXCEPT !.meters = fallbackEstimates.meters,
                          !.minutes = fallbackEstimates.minutes,
                          !.fee = fallbackEstimates.fee]

\* the handler goes on after `await fetch(...)`
EstimateAfterFetch(e) ==
  /\ estimate[e].pc = "fetch"
  /\ estimate[e].settled # ""
  /\ estimate' =
       [estimate EXCEPT ![e] =
          IF estimate[e].settled = "ok"
          THEN [@ EXCEPT !.pc = "json", !.settled = ""]
          ELSE Fallback(@)]
  /\ UNCHANGED <<products, orders, seed, checkout, orsKey>>

\* the body of the routing answer arrives and parses, or r.json() rejects
OrsSettlesJson(e, outcome, distance, duration) ==
  /\ estimate[e].pc = "json"
  /\ estimate[e].settled = ""
  /\ outcome = "rejected" => distance = Undef /\ duration = Undef
  /\ estimate' =
       [estimate EXCEPT ![e] =
          [@ EXCEPT !.settled = outcome,
                    !.meters = Nullish(distance, Num(fallbackEstimates.meters)).n \div Scale,
                    !.minutes = Ceil(Nullish(duration, Num(600)).n \div Scale, 60)]]
  /\ UNCHANGED <<products, orders, seed, checkout, orsKey>>

\* the handler goes on after `await r.json()`
EstimateAfterJson(e) ==
  /\ estimate[e].pc = "json"
  /\ estimate[e].settled # ""
  /\ estimate' =
       [estimate EXCEPT ![e] =
          IF estimate[e].settled = "parsed"
          THEN [Respond(@, 200) EXCEPT
                  !.fee = 10 + Ceil(Ceil(estimate[e].meters, 100), 2)]
          ELSE Fallback(@)]
  /\ UNCHANGED <<products, orders, seed, checkout, orsKey>>

EstimateInit ==
  /\ products = <<>>
  /\ orders = <<>>
  /\ seed = [s \in 1..MaxSeeds |-> IdleSeed]
  /\ checkout = [r \in 1..MaxCheckouts |-> IdleCheckout]
  /\ estimate = [e \in 1..MaxEstimates |-> IdleEstimate]
  /\ orsKey \in BOOLEAN

EstimateNext ==
  \/ \E e \in 1..MaxEstimates : \E from \in PointInputs, to \in PointInputs :
       EstimateReceive(e, from, to)
  \/ \E e \in 1..MaxEstimates : \E outcome \in {"ok", "notOk", "rejected"} :
       OrsSettlesFetch(e, outcome)
  \/ \E e \in 1..MaxEstimates : EstimateAfterFetch(e)
  \/ \E e \in 1..MaxEstimates : \E outcome \in {"parsed", "rejected"} :
       \E distance \in DistanceInputs, duration \in DurationInputs :
         OrsSettlesJson(e, outcome, distance, duration)
  \/ \E e \in 1..MaxEstimates : EstimateAfterJson(e)

\* the event loop runs a continuation whose promise has settled; nothing
\* obliges the routing service to settle one
EstimateFairness ==
  \A e \in 1..MaxEstimates :
    WF_vars(EstimateAfterFetch(e)) /\ WF_vars(EstimateAfterJson(e))

EstimateSpec == EstimateInit /\ [][EstimateNext]_vars /\ EstimateFairness

\* ================================================================ claims
\* sum of price * qty over stored order items, times Scale^2
RECURSIVE SumItems(_)
SumItems(items) ==
  IF items = <<>> THEN 0
  ELSE SumItems(Tail(items)) + Head(items).price * Head(items).qty

\* the orders request r created
OrdersOf(r) == {k \in 1..Len(orders) : orders[k].req = r}

\* the cart list of the request that created order o, item for item
CartOf(o) ==
  LET b == checkout[o.req].body IN
  IF b.isArray THEN b.elems
  ELSE IF b.items.isArray THEN b.items.elems ELSE b.cart.elems

\* the catalog has a product with this identifier
InCatalog(id) == \E j \in 1..Len(products) : products[j].id = id

\* the stored total is the stored items' rounded sum, floored at zero
TotalOfItems(o) == o.total = Max(0, Round(SumItems(o.items)))

\* C1: every persisted order's total equals round(sum of its items'
\* price * qty) and is not negative
C1_TotalIsRoundedSum ==
  \A k \in 1..Len(orders) :
    /\ orders[k].total = Round(SumItems(orders[k].items))
    /\ orders[k].total >= 0

\* C2: an item whose normalized identifier is the id of a catalog product is
\* stored with that product's catalog price, whatever price the client sent,
\* and the total is computed from the stored prices
C2_CatalogPriceWins ==
  \A k \in 1..Len(orders) :
    /\ Len(orders[k].items) = Len(checkout[orders[k].req].norm)
    /\ TotalOfItems(orders[k])
    /\ \A n \in 1..Len(orders[k].items) : \A j \in 1..Len(products) :
         checkout[orders[k].req].norm[n].productId = products[j].id
           => orders[k].items[n].price = products[j].price * Scale

\* an order holds a catalog-matched item for which the client sent a finite
\* price other than the catalog's
C2_Witness ==
  \E k \in 1..Len(orders) : \E n \in 1..Len(orders[k].items) :
    \E j \in 1..Len(products) :
      /\ checkout[orders[k].req].norm[n].productId = products[j].id
      /\ CartOf(orders[k])[n].price.t = "num"
      /\ CartOf(orders[k])[n].price.n > products[j].price * Scale
      /\ orders[k].items[n].price = products[j].price * Scale

\* the price an unmatched item is to be stored with: the submitted price when
\* it is (or is the text of) a finite number, else zero
SnapshotOf(price) ==
  CASE price.t = "num" -> price.n
    [] price.t \in {"undefined", "null", "inf", "nan"} -> 0
    [] OTHER -> IF IsFinite(ToNumber(price)) THEN ToNumber(price).n ELSE 0

\* C3: an item that matches no catalog product is no error (the request is
\* not answered 422, and 500 only after a store operation was attempted) and
\* is stored with the client's price when finite, with 0 otherwise
C3_UnknownFallsBack ==
  /\ \A r \in 1..MaxCheckouts :
       LET c == checkout[r] IN
       (c.pc # "idle" /\ Len(c.norm) > 0)
         => /\ c.status # 422
            /\ c.status = 500 => c.reads + c.writes > 0
  /\ \A k \in 1..Len(orders) : \A n \in 1..Len(orders[k].items) :
       ~InCatalog(checkout[orders[k].req].norm[n].productId)
         => orders[k].items[n].price = SnapshotOf(CartOf(orders[k])[n].price)

\* an answered order holds an unmatched item stored with the client's
\* non-zero price
C3_Witness ==
  \E k \in 1..Len(orders) : \E n \in 1..Len(orders[k].items) :
    /\ checkout[orders[k].req].status = 200
    /\ ~InCatalog(checkout[orders[k].req].norm[n].productId)
    /\ CartOf(orders[k])[n].price.t = "num"
    /\ orders[k].items[n].price # 0
    /\ orders[k].items[n].price = CartOf(orders[k])[n].price.n

\* the body gives no item: an empty list where the handler looks, or no list
EmptyBody(b) ==
  \/ b.isArray /\ b.elems = <<>>
  \/ ~b.isArray /\ b.items.isArray /\ b.items.elems = <<>>
  \/ ~b.isArray /\ ~b.items.isArray /\ b.cart.isArray /\ b.cart.elems = <<>>
  \/ ~b.isArray /\ ~b.items.isArray /\ ~b.cart.isArray

\* C4: a request with an empty item list is answered 422 at once; it reads no
\* catalog, writes no order, and no order exists for it
C4_EmptyCartRejected ==
  \A r \in 1..MaxCheckouts :
    LET c == checkout[r] IN
    (c.pc # "idle" /\ EmptyBody(c.body))
      => /\ c.pc = "done" /\ c.status = 422 /\ c.responses = 1
         /\ c.reads = 0 /\ c.writes = 0 /\ c.orderId = 0
         /\ OrdersOf(r) = {}

\* the body {} has been answered 422
C4_Witness ==
  \E r \in 1..MaxCheckouts :
    /\ checkout[r].pc = "done" /\ checkout[r].status = 422
    /\ checkout[r].body = ObjectBody(NotArray, NotArray)

\* the body is one of the three shapes of a list of well-formed items
PureShape(b) ==
  /\ \/ b.isArray
     \/ ~b.isArray /\ b.items.isArray /\ ~b.cart.isArray
     \/ ~b.isArray /\ ~b.items.isArray /\ b.cart.isArray
  /\ \A n \in 1..Len(b.elems \o b.items.elems \o b.cart.elems) :
       (b.elems \o b.items.elems \o b.cart.elems)[n].t = "object"

\* the three shapes of a list
ShapesOf(list) ==
  {BareBody(list), ObjectBody(Array(list), NotArray), ObjectBody(NotArray, Array(list))}

\* C5: the bare list, {items: L} and {cart: L} normalize alike, and the order
\* made from one has the items and total the others give on the same catalog
C5_ShapesAgree ==
  \A r \in 1..MaxCheckouts :
    LET c == checkout[r]
        list == c.body.elems \o c.body.items.elems \o c.body.cart.elems
    IN (c.pc # "idle" /\ PureShape(c.body)) =>
         \A b \in ShapesOf(list) :
           /\ c.norm = Normalize(SelectItems(b))
           /\ (c.status = 422) = NoItems(Normalize(SelectItems(b)))
           /\ \A k \in OrdersOf(r) :
                /\ orders[k].items = OrderItems(Normalize(SelectItems(b)), c.found)
                /\ orders[k].total = OrderTotal(Normalize(SelectItems(b)), c.found)

\* an order was made from a non-empty list sent under `cart`
C5_Witness ==
  \E k \in 1..Len(orders) :
    LET b == checkout[orders[k].req].body IN
    /\ PureShape(b) /\ ~b.isArray /\ b.cart.isArray
    /\ Len(orders[k].items) = Len(b.cart.elems)
    /\ Len(b.cart.elems) > 0

\* the first defined of an item's qty and quantity
Submitted(i) == IF i.qty.t \in {"undefined", "null"} THEN i.quantity ELSE i.qty

\* the quantity an item is to be stored with, times Scale
EffectiveQty(q) ==
  CASE q.t = "num" -> IF q.n > 0 THEN q.n ELSE Scale
    [] q.t \in {"undefined", "null", "inf", "nan"} -> Scale
    [] OTHER -> IF IsFinite(ToNumber(q)) /\ ToNumber(q).n > 0
                THEN ToNumber(q).n ELSE Scale

\* C6: every stored quantity is the submitted one when that is a finite
\* number > 0 and 1 otherwise, so it is positive, and the total is computed
\* with the stored quantities
C6_EffectiveQuantity ==
  \A k \in 1..Len(orders) :
    /\ TotalOfItems(orders[k])
    /\ Len(orders[k].items) = Len(CartOf(orders[k]))
    /\ \A n \in 1..Len(orders[k].items) :
         /\ orders[k].items[n].qty > 0
         /\ orders[k].items[n].qty = EffectiveQty(Submitted(CartOf(orders[k])[n]))

\* an order holds an item sent with a quantity of zero or less, stored as 1
C6_Witness ==
  \E k \in 1..Len(orders) : \E n \in 1..Len(orders[k].items) :
    /\ Submitted(CartOf(orders[k])[n]).t = "num"
    /\ Submitted(CartOf(orders[k])[n]).n <= 0
    /\ orders[k].items[n].qty = Scale

\* C7: a failed catalog read or order write is answered 500 and leaves no
\* order or item of the request behind; a finished request has an order (one,
\* with all its items) exactly when it was answered 200; a request is answered
\* once, when its handler finishes
C7_AllOrNothing ==
  \A r \in 1..MaxCheckouts :
    LET c == checkout[r] IN
    /\ c.responses = IF c.pc = "done" THEN 1 ELSE 0
    /\ c.status = 500 => OrdersOf(r) = {}
    /\ c.pc = "done" => ((OrdersOf(r) # {}) <=> (c.status = 200))
    /\ (c.pc = "done" /\ c.reads = 1 /\ c.writes = 0) => c.status = 500
    /\ (c.pc = "done" /\ c.writes = 1 /\ c.orderId = 0) => c.status = 500
    /\ Cardinality(OrdersOf(r)) <= 1
    /\ \A k \in OrdersOf(r) :
         /\ Len(orders[k].items) = Len(c.norm)
         /\ Len(orders[k].items) > 0

\* a request whose order write failed has been answered 500 while another
\* request's order is in the store
C7_Witness ==
  \E r \in 1..MaxCheckouts :
    /\ checkout[r].pc = "done" /\ checkout[r].status = 500
    /\ checkout[r].writes = 1 /\ checkout[r].orderId = 0
    /\ OrdersOf(r) = {}
    /\ Len(orders) > 0

\* C8: a step of a checkout leaves the catalog and the seeding alone, adds at
\* most one order and changes no order already stored; the step that answers
\* 200 ends a request that made one catalog read and one write and has
\* exactly one order
C8_CheckoutFrame ==
  [][ checkout' # checkout =>
        /\ products' = products
        /\ seed' = seed
        /\ Len(orders') \in {Len(orders), Len(orders) + 1}
        /\ SubSeq(orders', 1, Len(orders)) = orders
        /\ \A r \in 1..MaxCheckouts :
             (checkout[r].status # 200 /\ checkout'[r].status = 200)
               => /\ checkout'[r].reads = 1
                  /\ checkout'[r].writes = 1
                  /\ Cardinality({k \in 1..Len(orders') : orders'[k].req = r}) = 1
                  /\ Len(orders') = Len(orders)
    ]_vars

\* two checkouts have been answered 200 and the store holds both their
\* orders, the earlier one as its request made it
C8_Witness ==
  /\ Len(orders) = 2
  /\ \A k \in 1..2 :
       /\ checkout[orders[k].req].status = 200
       /\ checkout[orders[k].req].orderId = k
       /\ orders[k].items = OrderItems(checkout[orders[k].req].norm,
                                       checkout[orders[k].req].found)
  /\ orders[1].req # orders[2].req

\* C9: an estimate request whose routing call is pending is eventually
\* answered
C9_EstimateAnswered ==
  \A e \in 1..MaxEstimates :
    (estimate[e].pc \in {"fetch", "json"}) ~> (estimate[e].pc = "done")

\* C10: the catalog never holds a demo product twice
C10_SeededOnce ==
  \A a, b \in 1..Len(products) : products[a].demo = products[b].demo => a = b

====
